---- MODULE Spec2Model ----
(***************************************************************************)
(* Model of src/main.cpp: a lock-free SPSC ring (Ring, try_push, try_pop)  *)
(* carrying messages from the real-time (RT) thread to the observer, and a *)
(* double-buffered mailbox (Mailbox, send_command, peek) carrying the      *)
(* latest command from the observer to the RT thread.                      *)
(*                                                                         *)
(* Every access to shared memory is one step, and the steps of the two     *)
(* threads interleave: the release stores and acquire loads of the code    *)
(* order each thread's accesses as written.  A Message copy is not atomic: *)
(* it is one step per field, so the other thread can run between the       *)
(* fields of a copy.  Storage that the code never initialises holds Undef  *)
(* in every field.                                                         *)
(***************************************************************************)
EXTENDS Integers, Sequences, FiniteSets, TLC

\* ------------------------------------------------------------ constants

\* std::size(queue.buf): Message buf[8]
N == 8
\* the index mask of queue.buf[h & 7]
Mask == 7
\* command.arrayOfNumbers[0] = i * 100
CmdStep == 100
\* for (int i = 1; i <= 4; ++i)
ObserverLoops == 4

\* ------------------------------------------------------------ bounds

\* Width in bits of the cursors head and tail (size_t in the code).
CursorBits == 4
\* Number of try_push calls the producer of the harness makes.
MaxPush == 9
\* Number of send_command calls the writer of the harness makes.
MaxSend == 3
\* Number of iterations of the RT loop before the shutdown command is sent.
MaxIter == 3

RECURSIVE Pow2(_)
Pow2(n) == IF n = 0 THEN 1 ELSE 2 * Pow2(n - 1)

CursorMod == Pow2(CursorBits)

\* ------------------------------------------------------------ messages

\* The content of a field of storage that was never written.
Undef == -1

\* struct Message, in the order its fields are copied.  num stands for
\* arrayOfNumbers (the code only ever sets element 0), keepRunning is 1 for
\* true and 0 for false.
Fields == <<"num", "keepRunning">>

Msg(n, k) == [num |-> n, keepRunning |-> k]

UndefMsg == Msg(Undef, Undef)

\* One field of a Message assignment dst = src.
CopyField(dst, src, k) == [dst EXCEPT ![Fields[k]] = src[Fields[k]]]

\* ------------------------------------------------------------ arithmetic

\* a & b on non-negative integers, bit by bit.
RECURSIVE BitAnd(_, _)
BitAnd(a, b) ==
    IF a = 0 \/ b = 0 THEN 0
    ELSE (IF a % 2 = 1 /\ b % 2 = 1 THEN 1 ELSE 0) + 2 * BitAnd(a \div 2, b \div 2)

\* Mutant: a cursor is kept as a slot index.
UIncReset(a) == (a + 1) % N

\* Mutant: the cursors are subtracted as unbounded integers.
USubPlain(a, b) == a - b

\* Unsigned arithmetic of the cursors' width.
USub(a, b) == (a - b) % CursorMod
UInc(a) == (a + 1) % CursorMod

\* Mutant: the index is taken modulo N - 1.
SlotIndexShort(c) == c % (N - 1)

\* queue.buf[h & 7]
SlotIndex(c) == BitAnd(c, Mask)

\* Mutant: the ring counts as full one message early.
IsFullEarly(h, t) == USub(h, t) = N - 1

\* Mutant: the ring counts as full one message late.
IsFullLate(h, t) == USub(h, t) = N + 1

\* Mutant: try_push has no full test.
IsFullNever(h, t) == FALSE

\* if (h-t == std::size(queue.buf)) // full
IsFull(h, t) == USub(h, t) = N

\* Mutant: the empty test compares tail with head + 1.
\* Mutant: a ring that holds one message counts as empty.
IsEmptyEarly(t, h) == USub(h, t) <= 1

\* Mutant: the ring counts as empty one cursor value late.
IsEmptyShifted(t, h) == t = UInc(h)

\* if (t==h) // empty
IsEmpty(t, h) == t = h

\* Mutant: send_command writes the slot after the one latest_idx names.
WriteIdxNext(current_idx) == current_idx + 1

\* Mutant: send_command writes the slot that latest_idx names.
WriteIdxSame(current_idx) == current_idx

\* const int write_idx = 1 - current_idx;
WriteIdx(current_idx) == 1 - current_idx

\* ------------------------------------------------------------ state

VARIABLES
    head,        \* Ring::head
    tail,        \* Ring::tail
    buf,         \* Ring::buf
    slots,       \* Mailbox::slots
    latest_idx,  \* Mailbox::latest_idx
    rt,          \* the RT thread: its position and locals
    ob,          \* the observer thread: its position and locals
    pushed,      \* history: messages accepted by try_push, in order
    popped,      \* history: messages returned by try_pop, in order
    hist         \* history of the mailbox

vars == <<head, tail, buf, slots, latest_idx, rt, ob, pushed, popped, hist>>

ring == <<head, tail, buf>>
mailbox == <<slots, latest_idx>>

SendPcs == {"send_load", "send_copy", "send_store"}
PeekPcs == {"peek_load", "peek_copy"}

\* The locals of a thread that is in no call: h and t of try_push and try_pop,
\* idx (write_idx of send_command, read_idx of peek), and k, the field a
\* Message copy has reached.
NoLocals == [h |-> 0, t |-> 0, idx |-> 0, k |-> 1]

\* A thread moves to its next statement.
Step(th, next) == [th EXCEPT !.pc = next, !.steps = @ + 1]

\* A thread returns from its call.
Return(th, val) ==
    [th EXCEPT !.pc = "idle", !.steps = @ + 1, !.ret = val, !.loc = NoLocals]

\* The statement after the last one is the return (of true, for the ring).
Goto(th, next) == IF next = "idle" THEN Return(th, TRUE) ELSE Step(th, next)

\* A thread enters a call.
Call(th, op, entry) == [th EXCEPT !.pc = entry, !.op = op, !.steps = 0]

\* The histories of the ring are kept by the harness, whose calls are
\* bounded; the program's RT loop pushes without bound.
Logged(history, message) ==
    IF rt.at = "ring" THEN Append(history, message) ELSE history

\* ------------------------------------------------------------ try_push

\* Mutant: head is stored before the message is copied into the slot.
PushOrderPublishFirst ==
    [checked |-> "push_store", stored |-> "push_copy", copied |-> "idle"]

\* The order of the statements of try_push after the full test:
\* copy the message into the slot, then store head, then return.
PushOrder == [checked |-> "push_copy", copied |-> "push_store", stored |-> "idle"]

\* The RT thread enters try_push(queue, message).
CallPush(th, message) == Call([th EXCEPT !.message = message], "push", "push_load_h")

\* size_t h = queue.head.load(std::memory_order_relaxed);
PushLoadHead ==
    /\ rt.pc = "push_load_h"
    /\ rt' = Step([rt EXCEPT !.loc.h = head], "push_load_t")
    /\ UNCHANGED <<ring, mailbox, ob, pushed, popped, hist>>

\* Mutant: on a full ring try_push loads the cursors again until there is room.
PushLoadTailSpin ==
    /\ rt.pc = "push_load_t"
    /\ rt' = IF IsFull(rt.loc.h, tail)
             THEN Step(rt, "push_load_h")
             ELSE Step([rt EXCEPT !.loc.t = tail], PushOrder.checked)
    /\ UNCHANGED <<ring, mailbox, ob, pushed, popped, hist>>

\* size_t t = queue.tail.load(std::memory_order_acquire);
\* if (h-t == std::size(queue.buf)) return false;
PushLoadTail ==
    /\ rt.pc = "push_load_t"
    /\ rt' = IF IsFull(rt.loc.h, tail)
             THEN Return(rt, FALSE)
             ELSE Step([rt EXCEPT !.loc.t = tail], PushOrder.checked)
    /\ UNCHANGED <<ring, mailbox, ob, pushed, popped, hist>>

\* queue.buf[h & 7] = message;  (one field per step)
PushCopy ==
    /\ rt.pc = "push_copy"
    /\ buf' = [buf EXCEPT ![SlotIndex(rt.loc.h)] = CopyField(@, rt.message, rt.loc.k)]
    /\ rt' = IF rt.loc.k = Len(Fields)
             THEN Goto([rt EXCEPT !.loc.k = 1], PushOrder.copied)
             ELSE [rt EXCEPT !.loc.k = @ + 1, !.steps = @ + 1]
    /\ pushed' = IF rt'.pc = "idle" THEN Logged(pushed, rt.message) ELSE pushed
    /\ UNCHANGED <<head, tail, mailbox, ob, popped, hist>>

\* queue.head.store(h+1, std::memory_order_release);
PushStore ==
    /\ rt.pc = "push_store"
    /\ head' = UInc(rt.loc.h)
    /\ rt' = Goto(rt, PushOrder.stored)
    /\ pushed' = IF rt'.pc = "idle" THEN Logged(pushed, rt.message) ELSE pushed
    /\ UNCHANGED <<tail, buf, mailbox, ob, popped, hist>>

try_push == PushLoadHead \/ PushLoadTail \/ PushCopy \/ PushStore

\* ------------------------------------------------------------ try_pop

\* The order of the statements of try_pop after the empty test:
\* copy the slot into out, then store tail, then return.
PopOrder == [checked |-> "pop_copy", copied |-> "pop_store", stored |-> "idle"]

\* The observer enters try_pop(queue, out).
CallPop(th) == Call(th, "pop", "pop_load_t")

\* size_t t = queue.tail.load(std::memory_order_relaxed);
PopLoadTail ==
    /\ ob.pc = "pop_load_t"
    /\ ob' = Step([ob EXCEPT !.loc.t = tail], "pop_load_h")
    /\ UNCHANGED <<ring, mailbox, rt, pushed, popped, hist>>

\* size_t h = queue.head.load(std::memory_order_acquire);
\* if (t==h) return false;
PopLoadHead ==
    /\ ob.pc = "pop_load_h"
    /\ ob' = IF IsEmpty(ob.loc.t, head)
             THEN Return(ob, FALSE)
             ELSE Step([ob EXCEPT !.loc.h = head], PopOrder.checked)
    /\ UNCHANGED <<ring, mailbox, rt, pushed, popped, hist>>

\* out = queue.buf[t & 7];  (one field per step)
PopCopy ==
    /\ ob.pc = "pop_copy"
    /\ LET got == [ob EXCEPT !.out = CopyField(@, buf[SlotIndex(ob.loc.t)], ob.loc.k)]
       IN  ob' = IF ob.loc.k = Len(Fields)
                 THEN Goto([got EXCEPT !.loc.k = 1], PopOrder.copied)
                 ELSE [got EXCEPT !.loc.k = @ + 1, !.steps = @ + 1]
    /\ popped' = IF ob'.pc = "idle" THEN Logged(popped, ob'.out) ELSE popped
    /\ UNCHANGED <<ring, mailbox, rt, pushed, hist>>

\* Mutant: try_pop clears the slot it has read.
PopStoreClearsSlot ==
    /\ ob.pc = "pop_store"
    /\ tail' = UInc(ob.loc.t)
    /\ buf' = [buf EXCEPT ![SlotIndex(ob.loc.t)] = UndefMsg]
    /\ ob' = Goto(ob, PopOrder.stored)
    /\ popped' = IF ob'.pc = "idle" THEN Logged(popped, ob.out) ELSE popped
    /\ UNCHANGED <<head, mailbox, rt, pushed, hist>>

\* queue.tail.store(t+1, std::memory_order_release);
PopStore ==
    /\ ob.pc = "pop_store"
    /\ tail' = UInc(ob.loc.t)
    /\ ob' = Goto(ob, PopOrder.stored)
    /\ popped' = IF ob'.pc = "idle" THEN Logged(popped, ob.out) ELSE popped
    /\ UNCHANGED <<head, buf, mailbox, rt, pushed, hist>>

try_pop == PopLoadTail \/ PopLoadHead \/ PopCopy \/ PopStore

\* ------------------------------------------------------------ send_command

\* The order of the statements of send_command after the index is loaded:
\* copy the command into the staging slot, then store latest_idx, then return.
\* Mutant: latest_idx is stored before the command is copied into the slot.
SendOrderPublishFirst ==
    [loaded |-> "send_store", stored |-> "send_copy", copied |-> "idle"]

SendOrder == [loaded |-> "send_copy", copied |-> "send_store", stored |-> "idle"]

\* The observer enters send_command(mailbox, command).
CallSend(th, command) == Call([th EXCEPT !.command = command], "send", "send_load")

\* History: a send_command(command) call starts.  A peek in progress now
\* overlaps a send.
HistSend(command) ==
    [hist EXCEPT !.sent = @ \cup {command}, !.sends = @ + 1,
                 !.clean = @ /\ rt.pc \notin PeekPcs]

\* const int current_idx = mailbox.latest_idx.load(std::memory_order_relaxed);
\* const int write_idx = 1 - current_idx;
SendLoad ==
    /\ ob.pc = "send_load"
    /\ ob' = Step([ob EXCEPT !.loc.idx = WriteIdx(latest_idx)], SendOrder.loaded)
    /\ UNCHANGED <<ring, mailbox, rt, pushed, popped, hist>>

\* mailbox.slots[write_idx] = command;  (one field per step)
SendCopy ==
    /\ ob.pc = "send_copy"
    /\ slots' = [slots EXCEPT ![ob.loc.idx] = CopyField(@, ob.command, ob.loc.k)]
    /\ ob' = IF ob.loc.k = Len(Fields)
             THEN Goto([ob EXCEPT !.loc.k = 1], SendOrder.copied)
             ELSE [ob EXCEPT !.loc.k = @ + 1, !.steps = @ + 1]
    /\ hist' = IF ob'.pc = "idle" THEN [hist EXCEPT !.last = ob.command] ELSE hist
    /\ UNCHANGED <<ring, latest_idx, rt, pushed, popped>>

\* Mutant: send_command returns without storing the new index.
SendStoreNoPublish ==
    /\ ob.pc = "send_store"
    /\ ob' = Goto(ob, SendOrder.stored)
    /\ hist' = IF ob'.pc = "idle" THEN [hist EXCEPT !.last = ob.command] ELSE hist
    /\ UNCHANGED <<ring, mailbox, rt, pushed, popped>>

\* mailbox.latest_idx.store(write_idx, std::memory_order_release);
SendStore ==
    /\ ob.pc = "send_store"
    /\ latest_idx' = ob.loc.idx
    /\ ob' = Goto(ob, SendOrder.stored)
    /\ hist' = IF ob'.pc = "idle" THEN [hist EXCEPT !.last = ob.command] ELSE hist
    /\ UNCHANGED <<ring, slots, rt, pushed, popped>>

send_command == SendLoad \/ SendCopy \/ SendStore

\* ------------------------------------------------------------ peek

\* The RT thread enters peek(mailbox); the returned Message is built in place.
CallPeek(th) == Call([th EXCEPT !.command = UndefMsg], "peek", "peek_load")

\* History: a peek starts.  It is clean as long as no send_command is in
\* progress; expect is the value of the last send_command that has returned.
HistPeek == [hist EXCEPT !.clean = ob.pc \notin SendPcs, !.expect = hist.last]

\* const int read_idx = mailbox.latest_idx.load(std::memory_order_acquire);
PeekLoad ==
    /\ rt.pc = "peek_load"
    /\ rt' = Step([rt EXCEPT !.loc.idx = latest_idx], "peek_copy")
    /\ UNCHANGED <<ring, mailbox, ob, pushed, popped, hist>>

\* return mailbox.slots[read_idx];  (one field per step)
PeekCopy ==
    /\ rt.pc = "peek_copy"
    /\ LET got == [rt EXCEPT !.command = CopyField(@, slots[rt.loc.idx], rt.loc.k)]
       IN  rt' = IF rt.loc.k = Len(Fields)
                 THEN Return(got, TRUE)
                 ELSE [got EXCEPT !.loc.k = @ + 1, !.steps = @ + 1]
    /\ UNCHANGED <<ring, mailbox, ob, pushed, popped, hist>>

peek == PeekLoad \/ PeekCopy

\* ------------------------------------------------------------ construction

\* Ring rtToMain; Mailbox mainToRT;  head{0}, tail{0}, latest_idx{0}; the
\* arrays buf and slots have no initialiser.
Constructed ==
    /\ head = 0
    /\ tail = 0
    /\ buf = [s \in 0 .. N - 1 |-> UndefMsg]
    /\ slots = [s \in 0 .. 1 |-> UndefMsg]
    /\ latest_idx = 0
    /\ pushed = <<>>
    /\ popped = <<>>
    /\ hist = [sent |-> {}, sends |-> 0, last |-> UndefMsg,
               clean |-> FALSE, expect |-> UndefMsg]

Thread(at) ==
    [at |-> at, pc |-> "idle", op |-> "none", steps |-> 0, ret |-> FALSE, i |-> 0,
     message |-> UndefMsg, command |-> UndefMsg, out |-> UndefMsg, loc |-> NoLocals]

\* ------------------------------------------------------------ harness

\* Any interleaving of one producer that calls try_push with one consumer that
\* calls try_pop on a new ring, or of one writer that calls send_command with
\* one reader that calls peek on a new mailbox.

\* The message the producer offers in its i-th try_push call: every call offers
\* a different message, and the flag changes from one lap of the ring to the
\* next, so that two messages that share a slot differ in every field.
Payload(i) == Msg(i, (i \div N) % 2)

\* The commands the writer sends.
Commands == {Msg(n, k) : n \in 0 .. 1, k \in 0 .. 1}

Init ==
    /\ Constructed
    /\ \E test \in {"ring", "mailbox"} :
          /\ rt = Thread(test)
          /\ ob = Thread(test)

ProducerPush ==
    /\ rt.at = "ring" /\ rt.pc = "idle"
    /\ rt.i < MaxPush
    /\ rt' = CallPush([rt EXCEPT !.i = @ + 1], Payload(rt.i + 1))
    /\ UNCHANGED <<ring, mailbox, ob, pushed, popped, hist>>

ConsumerPop ==
    /\ ob.at = "ring" /\ ob.pc = "idle"
    /\ ob' = CallPop(ob)
    /\ UNCHANGED <<ring, mailbox, rt, pushed, popped, hist>>

WriterSend ==
    /\ ob.at = "mailbox" /\ ob.pc = "idle"
    /\ hist.sends < MaxSend
    /\ \E command \in Commands :
          /\ ob' = CallSend(ob, command)
          /\ hist' = HistSend(command)
    /\ UNCHANGED <<ring, mailbox, rt, pushed, popped>>

ReaderPeek ==
    /\ rt.at = "mailbox" /\ rt.pc = "idle"
    /\ rt' = CallPeek(rt)
    /\ hist' = HistPeek
    /\ UNCHANGED <<ring, mailbox, ob, pushed, popped>>

Next ==
    \/ ProducerPush \/ try_push
    \/ ConsumerPop \/ try_pop
    \/ WriterSend \/ send_command
    \/ ReaderPeek \/ peek

Spec == Init /\ [][Next]_vars

\* A ring in long use: cursors are size_t values and overflow after CursorMod
\* accepted pushes.  WrapInit is the ring after WrapStart messages, all
\* Payload(0), were pushed and popped one by one: the cursors are half a
\* ring before the overflow, every slot holds the old message, and the
\* histories record the calls made from here on.
WrapStart == CursorMod - N \div 2

WrapInit ==
    /\ head = WrapStart
    /\ tail = WrapStart
    /\ buf = [s \in 0 .. N - 1 |-> Payload(0)]
    /\ slots = [s \in 0 .. 1 |-> UndefMsg]
    /\ latest_idx = 0
    /\ pushed = <<>>
    /\ popped = <<>>
    /\ hist = [sent |-> {}, sends |-> 0, last |-> UndefMsg,
               clean |-> FALSE, expect |-> UndefMsg]
    /\ rt = Thread("ring")
    /\ ob = Thread("ring")

WrapNext ==
    \/ ProducerPush \/ try_push
    \/ ConsumerPop \/ try_pop

WrapSpec == WrapInit /\ [][WrapNext]_vars

\* ------------------------------------------------------------ the program

\* command.arrayOfNumbers[0] + static_cast<float>(i); a sum with a value that
\* was never written is itself indeterminate.
AddNum(num, i) == IF num = Undef THEN Undef ELSE num + i

\* The values if (!command.keepRunning) can read: the flag, or either value
\* when the flag was never written.
FlagValues(k) == IF k = Undef THEN {0, 1} ELSE {k}

\* The observer's send_command of the shutdown command has returned.
ShutdownSent == hist.last.keepRunning = 0

\* The RT loop is bounded to MaxIter iterations until the shutdown command is
\* sent; after it the loop runs freely (and ends by itself).
\* while(true) { i+=1; Message command = peek(mailbox);
RTLoop ==
    /\ rt.at = "loop" /\ rt.pc = "idle"
    /\ rt.i < MaxIter \/ ShutdownSent
    /\ rt' = CallPeek([rt EXCEPT !.at = "check", !.i = @ + 1])
    /\ hist' = HistPeek
    /\ UNCHANGED <<ring, mailbox, ob, pushed, popped>>

\* Mutant: the loop never looks at command.keepRunning.
RTCheckNoBreak ==
    /\ rt.at = "check" /\ rt.pc = "idle"
    /\ rt' = CallPush([rt EXCEPT !.at = "sleep"], Msg(AddNum(rt.command.num, rt.i), 1))
    /\ UNCHANGED <<ring, mailbox, ob, pushed, popped, hist>>

\* if (!command.keepRunning) break;
\* message.keepRunning = true; message.arrayOfNumbers[0] = ...; try_push(tx, message);
RTCheck ==
    /\ rt.at = "check" /\ rt.pc = "idle"
    /\ \E keepRunning \in FlagValues(rt.command.keepRunning) :
          rt' = IF keepRunning = 0
                THEN [rt EXCEPT !.at = "done"]
                ELSE CallPush([rt EXCEPT !.at = "sleep"],
                              Msg(AddNum(rt.command.num, rt.i), 1))
    /\ UNCHANGED <<ring, mailbox, ob, pushed, popped, hist>>

\* printf(...); std::this_thread::sleep_until(wake_up); }
RTSleep ==
    /\ rt.at = "sleep" /\ rt.pc = "idle"
    /\ rt' = [rt EXCEPT !.at = "loop"]
    /\ UNCHANGED <<ring, mailbox, ob, pushed, popped, hist>>

continuousThreadFunction == RTLoop \/ RTCheck \/ RTSleep

\* Mutant: main prepares the initial command and does not send it.
MainFirstSendSkipped ==
    /\ ob.at = "init" /\ ob.pc = "idle"
    /\ ob' = [ob EXCEPT !.at = "start", !.command = Msg(0, 1)]
    /\ UNCHANGED <<ring, mailbox, rt, pushed, popped, hist>>

\* Message command = {}; command.keepRunning = true;
\* command.arrayOfNumbers[0] = 0.0f; send_command(mainToRT, command);
MainFirstSend ==
    /\ ob.at = "init" /\ ob.pc = "idle"
    /\ ob' = CallSend([ob EXCEPT !.at = "start"], Msg(0, 1))
    /\ hist' = HistSend(Msg(0, 1))
    /\ UNCHANGED <<ring, mailbox, rt, pushed, popped>>

\* std::thread t(continuousThreadFunction, ...);  for (int i = 1; ...
MainStartThread ==
    /\ ob.at = "start" /\ ob.pc = "idle"
    /\ rt.at = "unstarted"
    /\ rt' = [rt EXCEPT !.at = "loop"]
    /\ ob' = [ob EXCEPT !.at = "loop", !.i = 1]
    /\ UNCHANGED <<ring, mailbox, pushed, popped, hist>>

\* i <= 4: command.arrayOfNumbers[0] = static_cast<float>(i * 100);
\* send_command(mainToRT, command);
MainSend ==
    /\ ob.at = "loop" /\ ob.pc = "idle"
    /\ ob.i <= ObserverLoops
    /\ LET command == [ob.command EXCEPT !.num = ob.i * CmdStep]
       IN  /\ ob' = CallSend([ob EXCEPT !.at = "drain"], command)
           /\ hist' = HistSend(command)
    /\ UNCHANGED <<ring, mailbox, rt, pushed, popped>>

\* std::this_thread::sleep_until(wake_up); Message message;
\* while (try_pop(rtToMain, message))   (the first call)
MainDrain ==
    /\ ob.at = "drain" /\ ob.pc = "idle"
    /\ ob' = CallPop([ob EXCEPT !.at = "popped", !.out = UndefMsg])
    /\ UNCHANGED <<ring, mailbox, rt, pushed, popped, hist>>

\* while (try_pop(rtToMain, message)) { printf(...); }  ++i
MainPopped ==
    /\ ob.at = "popped" /\ ob.pc = "idle"
    /\ ob' = IF ob.ret
             THEN CallPop(ob)
             ELSE [ob EXCEPT !.at = "loop", !.i = @ + 1]
    /\ UNCHANGED <<ring, mailbox, rt, pushed, popped, hist>>

\* Mutant: the last command leaves keepRunning as it was.
MainShutdownKeepsRunning ==
    /\ ob.at = "loop" /\ ob.pc = "idle"
    /\ ob.i > ObserverLoops
    /\ ob' = CallSend([ob EXCEPT !.at = "join"], ob.command)
    /\ hist' = HistSend(ob.command)
    /\ UNCHANGED <<ring, mailbox, rt, pushed, popped>>

\* i > 4: command.keepRunning = false; send_command(mainToRT, command);
MainShutdown ==
    /\ ob.at = "loop" /\ ob.pc = "idle"
    /\ ob.i > ObserverLoops
    /\ LET command == [ob.command EXCEPT !.keepRunning = 0]
       IN  /\ ob' = CallSend([ob EXCEPT !.at = "join"], command)
           /\ hist' = HistSend(command)
    /\ UNCHANGED <<ring, mailbox, rt, pushed, popped>>

\* t.join(); printf("done \n"); return 0;
MainJoin ==
    /\ ob.at = "join" /\ ob.pc = "idle"
    /\ rt.at = "done"
    /\ ob' = [ob EXCEPT !.at = "done"]
    /\ UNCHANGED <<ring, mailbox, rt, pushed, popped, hist>>

main ==
    \/ MainFirstSend \/ MainStartThread \/ MainSend \/ MainDrain
    \/ MainPopped \/ MainShutdown \/ MainJoin

MainInit ==
    /\ Constructed
    /\ rt = Thread("unstarted")
    /\ ob = Thread("init")

RTNext == continuousThreadFunction \/ peek \/ try_push

ObserverNext == main \/ send_command \/ try_pop

MainNext == RTNext \/ ObserverNext

MainSpec == MainInit /\ [][MainNext]_vars

\* Both threads are scheduled again and again.
FairMainSpec == MainSpec /\ WF_vars(RTNext) /\ WF_vars(ObserverNext)

\* The program with an RT thread that is not held to MaxIter iterations.
\* The first drain loop of the observer (i = 1) is running and the ring is
\* empty:
Chase == ob.at = "popped" /\ ob.i = 1 /\ head = tail

\* while(true) { i+=1; Message command = peek(mailbox);
\* Beyond its first MaxIter iterations the RT thread starts an iteration when
\* the observer is draining the empty ring in its first loop (no step of
\* either thread takes a set time, and sleep_until(wake_up) returns at once
\* when wake_up has passed), and after the shutdown command.  i is counted
\* up to MaxIter.  The RT thread is never held back for ever: the observer
\* goes on to the shutdown command unless the RT thread itself keeps it in
\* the drain loop.
RTLoopChase ==
    /\ rt.at = "loop" /\ rt.pc = "idle"
    /\ rt.i < MaxIter \/ ShutdownSent \/ Chase
    /\ rt' = CallPeek([rt EXCEPT !.at = "check",
                                 !.i = IF @ < MaxIter THEN @ + 1 ELSE @])
    /\ hist' = HistPeek
    /\ UNCHANGED <<ring, mailbox, ob, pushed, popped>>

DrainRTNext == RTLoopChase \/ RTCheck \/ RTSleep \/ peek \/ try_push

DrainNext == DrainRTNext \/ ObserverNext

DrainSpec ==
    MainInit /\ [][DrainNext]_vars /\ WF_vars(DrainRTNext) /\ WF_vars(ObserverNext)

\* ------------------------------------------------------------ claims

Range(seq) == {seq[j] : j \in 1 .. Len(seq)}

\* The RT thread, or the observer, has returned from a call of op.
RTReturned(op) == rt.op = op /\ rt.pc = "idle"
ObReturned(op) == ob.op = op /\ ob.pc = "idle"

\* C1: every message a successful try_pop has returned equals, in every
\* field, one single message that a successful try_push accepted; it is never
\* a mix of the fields of two pushed messages (nor of a pushed message and of
\* the unwritten content of a slot).
C1_NoTornPop == \A j \in 1 .. Len(popped) : popped[j] \in Range(pushed)

\* A message is popped from a slot that is in its second use, while the
\* producer is in a call.
C1_Witness ==
    /\ Len(popped) > N
    /\ popped[Len(popped)] = Payload(N + 1)
    /\ popped[Len(popped)] # popped[1]

\* C2: the messages popped so far are a prefix of the messages pushed so far:
\* same order, none twice, none skipped.
C2_Fifo ==
    /\ Len(popped) <= Len(pushed)
    /\ \A j \in 1 .. Len(popped) : popped[j] = pushed[j]

\* Three messages are popped while a later one is being copied into the ring.
C2_Witness ==
    /\ Len(popped) >= 3
    /\ rt.pc = "push_copy"
    /\ ob.pc = "pop_copy"

\* With no pop completed, the first N try_push calls return true.
C3_FirstNAccepted ==
    (rt.at = "ring" /\ tail = 0 /\ RTReturned("push") /\ rt.i <= N)
        => /\ rt.ret = TRUE
           /\ head = rt.i
           /\ pushed = [j \in 1 .. rt.i |-> Payload(j)]

\* With no pop completed, call N+1 returns false and the ring holds the N
\* earlier messages.
C3_NextRefused ==
    (rt.at = "ring" /\ tail = 0 /\ RTReturned("push") /\ rt.i = N + 1)
        => /\ rt.ret = FALSE
           /\ head = N
           /\ pushed = [j \in 1 .. N |-> Payload(j)]
           /\ \A j \in 1 .. N : buf[SlotIndex(j - 1)] = Payload(j)

\* The step of try_push that returns false changes no part of the ring.
C3_RefusalChangesNothing ==
    (rt.pc = "push_load_t" /\ rt'.pc = "idle")
        => /\ rt'.ret = FALSE
           /\ USub(head, tail) = N
           /\ UNCHANGED <<head, tail, buf, pushed>>

\* The message of a refused try_push is neither accepted nor popped.
C3_DroppedNeverPopped ==
    (rt.at = "ring" /\ RTReturned("push") /\ ~rt.ret)
        => rt.message \notin Range(pushed) \cup Range(popped)

\* C3: with no pop completed, the first N try_push calls on the empty ring
\* return true, and call N+1 returns false and leaves head, tail and every
\* slot unchanged; the new message is the one dropped, and the pops that
\* follow return the N earlier messages.
C3_FullRing ==
    /\ [](C3_FirstNAccepted /\ C3_NextRefused /\ C3_DroppedNeverPopped)
    /\ [][C3_RefusalChangesNothing]_vars

\* Push N+1 was refused on the full ring, and the N earlier messages were
\* popped afterwards.
C3_Witness ==
    /\ RTReturned("push") /\ rt.i = N + 1 /\ ~rt.ret
    /\ popped = [j \in 1 .. N |-> Payload(j)]

\* The step of try_pop that loads head, when head equals the tail it loaded.
C4_EmptyPopStep ==
    (ob.pc = "pop_load_h" /\ ob'.pc # ob.pc /\ head = ob.loc.t)
        => /\ ob'.pc = "idle"
           /\ ob'.ret = FALSE
           /\ ob'.out = ob.out
           /\ UNCHANGED <<tail, head, buf, popped>>

\* C4: a try_pop that loads head equal to the tail it loaded returns false
\* and changes neither tail, head, any slot nor the caller's out.
C4_EmptyPop == [][C4_EmptyPopStep]_vars

\* A try_pop has failed on a ring that was emptied by earlier pops, with the
\* last popped message still in out.
C4_Witness ==
    /\ ObReturned("pop") /\ ~ob.ret
    /\ Len(popped) >= 2
    /\ ob.out = popped[Len(popped)]

\* C5: head - tail, in the cursors' unsigned arithmetic, is the number of
\* messages pushed and not yet popped, and is between 0 and N.
C5_Occupancy ==
    /\ USub(head, tail) \in 0 .. N
    /\ rt.at = "ring" => USub(head, tail) = Len(pushed) - Len(popped)

\* The ring is full while the producer is in a further call and the consumer
\* is in the middle of a pop.
C5_Witness ==
    /\ USub(head, tail) = N
    /\ rt.pc = "push_load_t"
    /\ ob.pc = "pop_store"

\* A message peek has returned is one of the values passed to send_command,
\* or the initial content of the mailbox.
C6_PeekReturnsOneValue ==
    (rt.at = "mailbox" /\ RTReturned("peek")) => rt.command \in hist.sent \cup {UndefMsg}

\* No send_command is copying into the slot a peek is copying from.
C6_NoWriteUnderPeek ==
    ~(rt.pc = "peek_copy" /\ ob.pc = "send_copy" /\ ob.loc.idx = rt.loc.idx)

\* C6: every message peek returns equals, in every field, one single value
\* passed to send_command, or the initial content of the mailbox; and
\* send_command never writes a slot that a peek is in the middle of copying.
C6_NoTornPeek == C6_PeekReturnsOneValue /\ C6_NoWriteUnderPeek

\* C7: a peek that starts after a send_command has returned, and overlaps no
\* send_command, returns the value of the last send_command that returned.
C7_LatestValueWins ==
    (RTReturned("peek") /\ hist.clean /\ hist.expect # UndefMsg)
        => rt.command = hist.expect

\* send_command(A) and send_command(B), A # B, have returned, and a peek that
\* started after both and overlapped no send has returned B.
C7_Witness ==
    /\ rt.at = "mailbox" /\ RTReturned("peek") /\ hist.clean
    /\ ob.pc = "idle" /\ hist.sends = 2 /\ Cardinality(hist.sent) = 2
    /\ hist.expect = hist.last
    /\ rt.command = hist.last

\* C8: a peek on a new mailbox, before any send_command, returns an
\* initialised value: no field of it is unwritten storage.
C8_InitialValue ==
    (RTReturned("peek") /\ hist.sends = 0)
        => rt.command.num # Undef /\ rt.command.keepRunning # Undef

\* The number of statements of each operation, a Message copy counting one
\* per field.
StepBound(op) ==
    CASE op \in {"push", "pop"} -> Len(Fields) + 3
      [] op = "send" -> Len(Fields) + 2
      [] op = "peek" -> Len(Fields) + 1
      [] OTHER -> 0

\* C9: every call of try_push, try_pop, send_command and peek returns within
\* a fixed number of steps of its own thread, and a thread inside a call can
\* always take its next step, wherever the other thread stands.
C9_WaitFree ==
    /\ rt.steps <= StepBound(rt.op)
    /\ ob.steps <= StepBound(ob.op)
    /\ rt.pc # "idle" => ENABLED (try_push \/ peek)
    /\ ob.pc # "idle" => ENABLED (try_pop \/ send_command)

\* A try_push has run to its last statement while the consumer stood in the
\* middle of a try_pop.
C9_Witness ==
    /\ RTReturned("push") /\ rt.ret /\ rt.steps = StepBound("push")
    /\ ob.pc = "pop_copy" /\ ob.loc.k = Len(Fields)

\* The RT loop has returned from a peek that started after the send_command
\* of the shutdown command had returned.
C10_AfterShutdown ==
    rt.at = "check" /\ rt.pc = "idle" /\ hist.clean /\ hist.expect.keepRunning = 0

C10_PeekSeesShutdown == C10_AfterShutdown => rt.command.keepRunning = 0

C10_ExitWithoutPush ==
    (C10_AfterShutdown /\ rt' # rt) => (rt'.at = "done" /\ UNCHANGED ring)

\* C10: once the observer's send_command of the shutdown command has
\* returned, a peek of the RT loop that starts afterwards returns
\* keepRunning = false and the loop ends without another push; with both
\* threads scheduled fairly the RT thread then ends and the join returns.
C10_Shutdown ==
    /\ []C10_PeekSeesShutdown
    /\ [][C10_ExitWithoutPush]_vars
    /\ (hist.last.keepRunning = 0) ~> (rt.at = "done" /\ ob.at = "done")

\* The RT thread has pushed, the shutdown command was sent, and the join has
\* returned.
C10_Witness ==
    /\ ob.at = "done" /\ rt.at = "done"
    /\ hist.last.keepRunning = 0
    /\ head > 0

\* A step of the RT thread (try_push, peek), of the observer (try_pop,
\* send_command): every statement moves its own thread and no other.
RTStep == rt' # rt
ObStep == ob' # ob

\* The slots of the ring that a step changes.
Written == {s \in 0 .. N - 1 : buf'[s] # buf[s]}

\* C11: no shared field is written by both threads.  try_push writes only
\* head and the slot at head mod N, never tail; try_pop writes only tail and
\* the caller's out, never head or a slot; only send_command writes the
\* selector or a slot of the mailbox; peek leaves the mailbox unchanged.
C11_Partition ==
    [][/\ RTStep => /\ UNCHANGED <<tail, slots, latest_idx>>
                    /\ Written \subseteq {head % N}
                    /\ rt.op = "peek" => UNCHANGED <<head, buf>>
       /\ ObStep => /\ UNCHANGED <<head, buf>>
                    /\ ob.op = "pop" => UNCHANGED <<slots, latest_idx>>
                    /\ ob.op = "send" => UNCHANGED tail
       /\ (slots' # slots \/ latest_idx' # latest_idx) => ob.pc \in SendPcs
       /\ RTStep # ObStep]_vars

\* The producer is writing a slot of a ring whose cursors have both moved,
\* while the consumer is about to store tail.
C11_Witness ==
    /\ rt.pc = "push_copy" /\ rt.loc.k = Len(Fields)
    /\ ob.pc = "pop_store"
    /\ head > 0 /\ tail > 0

\* C12: in every state, also in the middle of a send_command, the slot that
\* latest_idx names holds the complete value of the last send_command that
\* returned (or the initial content); a send_command in progress writes only
\* the slot that latest_idx does not name.
C12_PublishedSlotStable ==
    /\ slots[latest_idx] = hist.last
    /\ ob.pc = "send_copy" => ob.loc.idx # latest_idx

\* A third send_command has written one field of the staging slot, which
\* still holds a field of an older command; the published slot is whole.
C12_Witness ==
    /\ ob.pc = "send_copy" /\ ob.loc.k = Len(Fields)
    /\ hist.sends > 2
    /\ slots[ob.loc.idx] \notin hist.sent
    /\ slots[latest_idx] = hist.last

\* The cursors of the messages that are committed and not yet popped.
Unread == {(tail + d) % CursorMod : d \in 0 .. ((head - tail) % CursorMod) - 1}

\* C13: try_push never writes a slot that holds a committed message not yet
\* popped: while the producer writes slot h mod N, no cursor from tail up to
\* head (their current values) maps to that slot, although the producer
\* decided on an older value of tail.
C13_NoOverwrite ==
    rt.pc = "push_copy" => \A c \in Unread : c % N # rt.loc.h % N

\* The producer writes a slot for the second time, the consumer having popped
\* since the producer loaded tail.
C13_Witness ==
    /\ rt.pc = "push_copy"
    /\ head >= N
    /\ rt.loc.t # tail
    /\ Unread # {}

\* C14: in try_push the slot copy is complete when head is advanced, and in
\* send_command the slot copy is complete when latest_idx is changed; so when
\* the consumer has loaded head # t and starts copying slot t mod N, the
\* producer's write for cursor t is complete, and when peek has loaded the
\* selector and starts copying, the write that this selector value published
\* is complete.
C14_PublishAfterWrite ==
    /\ [](ob.pc = "pop_copy" /\ ob.loc.k = 1 =>
            /\ Len(pushed) > Len(popped)
            /\ buf[ob.loc.t % N] = pushed[Len(popped) + 1]
            /\ ~(rt.pc = "push_copy" /\ rt.loc.h % N = ob.loc.t % N))
    /\ [][/\ head' # head => buf[head % N] = rt.message
          /\ latest_idx' # latest_idx => slots[latest_idx'] = ob.command
          /\ (rt.pc = "peek_load" /\ RTStep) =>
                /\ slots[latest_idx] = hist.last
                /\ ~(ob.pc = "send_copy" /\ ob.loc.idx = latest_idx)]_vars

\* A peek that loaded the selector after two sends is about to copy the
\* published slot, while a further send_command writes the other slot.
C14_Witness ==
    /\ rt.pc = "peek_copy" /\ rt.loc.k = 1
    /\ hist.sends > 2
    /\ rt.loc.idx = latest_idx
    /\ ob.pc = "send_copy" /\ ob.loc.k = Len(Fields)

\* The step in which a call of try_push, of try_pop returns.
PushReturns == rt.op = "push" /\ rt.pc # "idle" /\ rt'.pc = "idle"
PopReturns == ob.op = "pop" /\ ob.pc # "idle" /\ ob'.pc = "idle"

\* C15: head and tail start at 0 and are never reset or decreased; each
\* try_push that returns true increases head by exactly 1, each try_pop that
\* returns true increases tail by exactly 1, and a call that returns false
\* changes neither.
C15_MonotonicCursors ==
    /\ head = 0 /\ tail = 0
    /\ [](rt.at = "ring" => head = Len(pushed) /\ tail = Len(popped))
    /\ [][/\ head' \in {head, head + 1}
          /\ tail' \in {tail, tail + 1}
          /\ head' # head <=> PushReturns /\ rt'.ret
          /\ tail' # tail <=> PopReturns /\ ob'.ret
          /\ (PushReturns /\ ~rt'.ret) => head = rt.loc.h /\ UNCHANGED <<head, tail>>
          /\ (PopReturns /\ ~ob'.ret) => tail = ob.loc.t /\ UNCHANGED <<head, tail>>]_vars

\* Both cursors have passed the capacity and a try_pop has just failed.
C15_Witness ==
    /\ head > N /\ tail = head
    /\ ObReturned("pop") /\ ~ob.ret

\* C16: latest_idx is 0 at construction and 0 or 1 in every state, so every
\* slot access is in bounds; each send_command that returns has flipped it,
\* so consecutive sends alternate between the two slots.
C16_Selector ==
    /\ latest_idx = 0
    /\ [](/\ latest_idx \in DOMAIN slots
          /\ DOMAIN slots = {0, 1}
          /\ rt.pc = "peek_copy" => rt.loc.idx \in DOMAIN slots
          /\ ob.pc = "send_copy" => ob.loc.idx \in DOMAIN slots
          /\ ob.pc \notin SendPcs => latest_idx = hist.sends % 2)
    /\ [][(ob.op = "send" /\ ob.pc # "idle" /\ ob'.pc = "idle") =>
            /\ latest_idx' = ob.loc.idx
            /\ latest_idx' = 1 - latest_idx]_vars

\* The third send_command has returned and has published slot 1 again.
C16_Witness ==
    /\ ObReturned("send")
    /\ hist.sends > 2
    /\ latest_idx = 1

\* C17: with w-bit cursors that overflow modulo 2^w, N dividing 2^w, the
\* index h & 7 equals h mod 8 and agrees with the capacity of the full test;
\* when head has wrapped past 2^w - 1 the unsigned difference head - tail
\* still is the number of unread messages, try_push fails exactly on a full
\* and try_pop exactly on an empty ring, the order is FIFO, and the slots
\* are used in turn, none skipped and none repeated.
C17_Wraparound ==
    /\ [](/\ CursorMod % N = 0
          /\ \A c \in 0 .. CursorMod - 1 : SlotIndex(c) = c % N
          /\ USub(head, tail) = Len(pushed) - Len(popped)
          /\ Len(pushed) - Len(popped) \in 0 .. N
          /\ popped = SubSeq(pushed, 1, Len(popped))
          /\ \A j \in Len(popped) + 1 .. Len(pushed) :
                 buf[(WrapStart + j - 1) % N] = pushed[j])
    /\ [][/\ PushReturns => (rt'.ret <=> Len(pushed) - Len(popped) < N)
          /\ PopReturns => (ob'.ret <=> Len(pushed) - Len(popped) > 0)]_vars

\* head has wrapped and tail has not, the ring is full, and a try_push has
\* just been refused.
C17_Witness ==
    /\ head < tail
    /\ USub(head, tail) = N
    /\ RTReturned("push") /\ ~rt.ret

\* C18: try_push returns false only if the ring held N unread messages at
\* the instant the call loaded tail, and try_pop returns false only if the
\* ring was empty at the instant the call loaded head; the cursor a thread
\* loaded earlier in the call is its own and is still current.
C18_NoSpuriousFailure ==
    [][/\ (PushReturns /\ ~rt'.ret) =>
            /\ rt.pc = "push_load_t"
            /\ rt.loc.h = head
            /\ Len(pushed) - Len(popped) = N
       /\ (PopReturns /\ ~ob'.ret) =>
            /\ ob.pc = "pop_load_h"
            /\ ob.loc.t = tail
            /\ Len(pushed) = Len(popped)]_vars

\* A try_pop has returned false on a ring that was used before, while the
\* producer has copied a message into its slot and not yet stored head.
C18_Witness ==
    /\ ObReturned("pop") /\ ~ob.ret
    /\ Len(popped) > 0
    /\ rt.pc = "push_store"

\* The fields of a message that hold no written value.
Unwritten(m) == {k \in DOMAIN m : m[k] = Undef}

\* C19: in the program the observer has completed a send_command of a
\* command with keepRunning = true when the RT thread is started, so no peek
\* of the RT thread reads a field of a mailbox slot that was never written.
C19_InitialisedBeforeStart ==
    /\ [](rt.at # "unstarted" =>
            /\ Msg(0, 1) \in hist.sent
            /\ hist.last # UndefMsg
            /\ Unwritten(slots[latest_idx]) = {})
    /\ [](rt.pc = "peek_copy" => Unwritten(slots[rt.loc.idx]) = {})
    /\ [](RTReturned("peek") => Unwritten(rt.command) = {})
    /\ [][rt.at # rt'.at /\ rt.at = "unstarted" =>
            /\ ob.pc = "idle"
            /\ hist.last = Msg(0, 1)
            /\ slots[latest_idx] = Msg(0, 1)]_vars

\* The RT thread copies slot 0, the slot that the initial command did not
\* write, after a later command was published in it.
C19_Witness ==
    /\ rt.pc = "peek_copy" /\ rt.loc.k = Len(Fields)
    /\ rt.loc.idx = 0
    /\ Unwritten(slots[0]) = {}

\* The observer has returned from main.
Terminated == ob.at = "done" /\ rt.at = "done"

\* C20: under fair scheduling of both threads and whatever their relative
\* speeds, the program terminates: each drain loop of the observer ends, the
\* observer sends the shutdown command, the RT thread leaves its loop and
\* the join returns.
C20_Terminates == <>Terminated

\* The observer is in a drain loop: while (try_pop(rtToMain, message)).
InDrain == ob.at = "popped"

\* C20, amended: under fair scheduling of both threads the program
\* terminates unless a drain loop of the observer never ends; a drain loop
\* ends only when a try_pop finds the ring empty, and the RT thread can push
\* a message for every message the observer pops.
C20_TerminatesUnlessDraining == <>Terminated \/ <>[]InDrain

\* The program has terminated after the RT thread pushed more messages than
\* the ring holds, some of them into a running drain loop.
C20_Witness ==
    /\ Terminated
    /\ head > N
    /\ tail = head

====
